---- MODULE Spec2Model ----
(***************************************************************************)
(* Medicine Tracker (src/Medicine Tracker/app.py): the medicines and logs  *)
(* tables and the request handlers that read and write them.               *)
(*                                                                         *)
(* A text value is a sequence of one-character strings, so that strip()    *)
(* is computed and not assumed.  A scheduled_time is <<day, slot>> for the *)
(* text f"{today} {slot}", and <<>> for SQL NULL.  Integer columns use     *)
(* NULL == -1.  Row ids are AUTOINCREMENT and rows are never deleted, so   *)
(* the id of a row is its position in the table.                           *)
(* The columns start_date, end_date, frequency, instructions, created_at   *)
(* are written but never read by a handler modelled here; of start_date    *)
(* only its presence in the request is kept (has_start_date).  A notes     *)
(* column that is SQL NULL holds ABSENT.  The statistics' upcoming_today,  *)
(* which needs the time of day, and the settings, export and health       *)
(* handlers are left out.  adherence_rate is an integer number of         *)
(* hundredths of a percent.                                                *)
(***************************************************************************)
EXTENDS Integers, Sequences, FiniteSets, TLC

VARIABLES medicines, logs, today, req, resp, pc, held, commits, nwrites

vars == <<medicines, logs, today, req, resp, pc, held, commits, nwrites>>

\* ---------------------------------------------------------------- bounds
MaxMedicines == 2
MaxLogs == 3
MaxDay == 8
MaxWrites == 3

\* ------------------------------------------------------------- constants
NULL == -1
NullTime == <<>>
WeekDays == 7
ABSENT == "ABSENT"

\* ---------------------------------------------------------- input domains
Slots == { "08:00", "20:00", "xx" }
StatusInputs == { "taken", "skipped", ABSENT }
NotesInputs == { "n1", ABSENT }
DaysArgs == { 0, 7 }
TickJumps == { 7, 8 }

\* ------------------------------------------------------------- text, time
RECURSIVE LStrip(_)
LStrip(s) == IF s = <<>> THEN s
             ELSE IF Head(s) = " " THEN LStrip(Tail(s)) ELSE s

RECURSIVE RStrip(_)
RStrip(s) == IF s = <<>> THEN s
             ELSE IF s[Len(s)] = " " THEN RStrip(SubSeq(s, 1, Len(s) - 1)) ELSE s

Strip(s) == RStrip(LStrip(s))

\* time-of-day texts SQLite's date/time functions accept; their text order
SlotOrd(t) == CASE t = "08:00" -> 1 [] t = "20:00" -> 2 [] OTHER -> 0

ValidTime(t) == SlotOrd(t) > 0

ScheduledTime(day, slot) == <<day, slot>>

\* SQLite DATE(text): NULL for NULL and for a text it cannot parse
DATE(st) == IF st = NullTime THEN NULL
            ELSE IF ValidTime(st[2]) THEN st[1] ELSE NULL

\* -------------------------------------------------------------- the store
Medicine(name, dosage, tpd, schedule) ==
    [ name |-> name, dosage |-> dosage, times_per_day |-> tpd,
      schedule |-> schedule, is_active |-> TRUE ]

LogEntry(mid, name, dosage, st, taken, status, notes) ==
    [ medicine_id |-> mid, medicine_name |-> name, dosage |-> dosage,
      scheduled_time |-> st, taken_time |-> taken, status |-> status,
      notes |-> notes ]

Init ==
    /\ medicines = <<>>
    /\ logs = <<>>
    /\ today = 0
    /\ req = [ op |-> "init" ]
    /\ resp = [ code |-> 0 ]
    /\ pc = <<>>
    /\ held = 0
    /\ commits = <<>>
    /\ nwrites = 0

\* one more POST/PUT/DELETE request is served
Served == nwrites < MaxWrites /\ nwrites' = nwrites + 1

\* ---------------------------------------------------- POST /api/medicines
MedData(name, dosage, tpd, schedule, sd) ==
    [ name |-> name, dosage |-> dosage, times_per_day |-> tpd,
      schedule |-> schedule, has_start_date |-> sd ]

\* request bodies: well-formed ones, and one per way of failing validation
CreateData ==
    { MedData(<<"a">>, <<"x">>, 1, <<"08:00">>, TRUE),
      MedData(<<" ", "b">>, <<"y", " ">>, 2, <<"20:00", "08:00">>, TRUE),
      MedData(<<"a">>, <<"y", " ">>, 1, <<"xx">>, TRUE),
      MedData(<<" ", "b">>, <<"x">>, 2, <<"08:00">>, TRUE),
      MedData(<<"a">>, <<"x">>, 1, <<"20:00", "08:00">>, TRUE),
      MedData(<<>>, <<"x">>, 1, <<"08:00">>, TRUE),
      MedData(<<"a">>, <<"x">>, 2, <<"08:00">>, FALSE) }

UpdateData ==
    { MedData(<<" ", "b">>, <<"y", " ">>, 2, <<"20:00", "08:00">>, TRUE),
      MedData(<<" ", "b">>, <<"x">>, 2, <<"08:00">>, TRUE),
      MedData(<<"a">>, <<"x">>, 1, <<"08:00">>, FALSE) }

\* `not data.get(field)` over required_fields
MissingRequired(data) ==
    \/ data.name = <<>>
    \/ data.dosage = <<>>
    \/ data.times_per_day = 0
    \/ data.schedule = <<>>
    \/ ~data.has_start_date

\* variant: only a schedule longer than times_per_day is refused
ScheduleTooLong(data) == Len(data.schedule) > data.times_per_day

ScheduleMismatch(data) == Len(data.schedule) # data.times_per_day

\* variant: the slots are walked from the last to the first
InitialLogsReversed(mid, data, day) ==
    [ i \in 1..Len(data.schedule) |->
        LogEntry(mid, Strip(data.name), Strip(data.dosage),
                 ScheduledTime(day, data.schedule[Len(data.schedule) + 1 - i]),
                 NULL, "pending", ABSENT) ]

\* the rows the loop over data['schedule'] inserts, in loop order
InitialLogs(mid, data, day) ==
    [ i \in 1..Len(data.schedule) |->
        LogEntry(mid, Strip(data.name), Strip(data.dosage),
                 ScheduledTime(day, data.schedule[i]), NULL, "pending", ABSENT) ]

InsertMedicine(meds, data) ==
    Append(meds,
           Medicine(Strip(data.name), Strip(data.dosage),
                    data.times_per_day, data.schedule))

CreateMedicine ==
    \E data \in CreateData :
       /\ req' = [ op |-> "create", data |-> data ]
       /\ IF MissingRequired(data)
          THEN /\ resp' = [ code |-> 400, error |-> "missing" ]
               /\ UNCHANGED <<medicines, logs>>
          ELSE IF ScheduleMismatch(data)
          THEN /\ resp' = [ code |-> 400, error |-> "mismatch" ]
               /\ UNCHANGED <<medicines, logs>>
          ELSE /\ Len(medicines) < MaxMedicines
               /\ Len(logs) + Len(data.schedule) <= MaxLogs
               /\ medicines' = InsertMedicine(medicines, data)
               /\ logs' = logs \o InitialLogs(Len(medicines) + 1, data, today)
               /\ resp' = [ code |-> 200, id |-> Len(medicines) + 1 ]
       /\ Served
       /\ UNCHANGED <<today, pc, held, commits>>

\* ------------------------------------------- PUT/DELETE /api/medicines/<id>
MedicineIds == 1..(MaxMedicines + 1)

SoftDelete(meds, id) ==
    [ i \in DOMAIN meds |->
        IF i = id THEN [ meds[i] EXCEPT !.is_active = FALSE ] ELSE meds[i] ]

DeleteMedicine ==
    \E id \in MedicineIds :
       /\ req' = [ op |-> "delete", id |-> id ]
       /\ medicines' = SoftDelete(medicines, id)
       /\ resp' = [ code |-> 200 ]
       /\ Served
       /\ UNCHANGED <<logs, today, pc, held, commits>>

UpdateRow(m, data) ==
    [ m EXCEPT !.name = Strip(data.name), !.dosage = Strip(data.dosage),
               !.times_per_day = data.times_per_day,
               !.schedule = data.schedule ]

UpdateMedicines(meds, id, data) ==
    [ i \in DOMAIN meds |-> IF i = id THEN UpdateRow(meds[i], data) ELSE meds[i] ]

UpdateMedicine ==
    \E id \in MedicineIds, data \in UpdateData :
       /\ req' = [ op |-> "update", id |-> id, data |-> data ]
       /\ IF ~data.has_start_date
          THEN \* data['start_date'] raises KeyError before the UPDATE runs
               /\ resp' = [ code |-> 500 ]
               /\ UNCHANGED medicines
          ELSE /\ medicines' = UpdateMedicines(medicines, id, data)
               /\ resp' = [ code |-> 200 ]
       /\ Served
       /\ UNCHANGED <<logs, today, pc, held, commits>>

\* --------------------------------------------------------- POST /api/logs
LogIds == 1..(MaxLogs + 1)

MarkData == [ log_id : LogIds, status : StatusInputs, notes : NotesInputs ]

Get(v, default) == IF v = ABSENT THEN default ELSE v

\* line 269: the timestamp is taken only when the request says 'taken'
TakenTime(data, now) == IF data.status = "taken" THEN now ELSE NULL

\* variant: a request without notes keeps the notes already stored
MarkRowKeepNotes(l, data, taken) ==
    [ l EXCEPT !.taken_time = taken,
               !.status = Get(data.status, "taken"),
               !.notes = Get(data.notes, l.notes) ]

MarkRow(l, data, taken) ==
    [ l EXCEPT !.taken_time = taken,
               !.status = Get(data.status, "taken"),
               !.notes = Get(data.notes, "") ]

\* variant: INSERT OR REPLACE, a row is made when the id matches none
UpsertLogs(ls, data, taken) ==
    IF data.log_id \in DOMAIN ls
    THEN [ i \in DOMAIN ls |->
             IF i = data.log_id THEN MarkRow(ls[i], data, taken) ELSE ls[i] ]
    ELSE Append(ls, LogEntry(NULL, <<>>, <<>>, NullTime, taken,
                             Get(data.status, "taken"), Get(data.notes, "")))

UpdateLogs(ls, data, taken) ==
    [ i \in DOMAIN ls |-> IF i = data.log_id THEN MarkRow(ls[i], data, taken) ELSE ls[i] ]

\* the one-request-at-a-time runs always send notes
NotedMarkData == { d \in MarkData : d.notes # ABSENT }

MarkLog ==
    \E data \in NotedMarkData :
       /\ req' = [ op |-> "mark", data |-> data ]
       /\ logs' = UpdateLogs(logs, data, TakenTime(data, today))
       /\ resp' = [ code |-> 200 ]
       /\ Served
       /\ UNCHANGED <<medicines, today, pc, held, commits>>

AdHocData == [ medicine_name : { <<"a">> }, dosage : { <<"x">> },
               status : { "taken", ABSENT }, notes : { ABSENT } ]

AdHocRow(data, now) ==
    LogEntry(NULL, data.medicine_name, data.dosage, NullTime, now,
             Get(data.status, "taken"), Get(data.notes, ""))

AdHocLog ==
    \E data \in AdHocData :
       /\ Len(logs) < MaxLogs
       /\ req' = [ op |-> "adhoc", data |-> data ]
       /\ logs' = Append(logs, AdHocRow(data, today))
       /\ resp' = [ code |-> 200 ]
       /\ Served
       /\ UNCHANGED <<medicines, today, pc, held, commits>>

\* ------------------------------------------------------------ the reads
NullText == <<"NULL">>

CharOrd(c) == CASE c = " " -> 1 [] c = "a" -> 2 [] c = "b" -> 3
                [] c = "x" -> 4 [] c = "y" -> 5 [] OTHER -> 6

RECURSIVE TextLess(_, _)
TextLess(s, t) ==
    IF t = <<>> THEN FALSE
    ELSE IF s = <<>> THEN TRUE
    ELSE IF Head(s) = Head(t) THEN TextLess(Tail(s), Tail(t))
    ELSE CharOrd(Head(s)) < CharOrd(Head(t))

\* the text order of two parseable scheduled_time values
TimeLess(a, b) == a[1] < b[1] \/ (a[1] = b[1] /\ SlotOrd(a[2]) < SlotOrd(b[2]))

\* rows S in the order B (pairs <<i, j>>, i sorts before j), rows that
\* compare equal in rowid order
Ordered(S, B) ==
    LET First(i, j) == <<i, j>> \in B \/ (<<j, i>> \notin B /\ i < j)
        Rank(i) == 1 + Cardinality({ j \in S : First(j, i) })
    IN  [ k \in 1..Cardinality(S) |-> CHOOSE i \in S : Rank(i) = k ]

\* LEFT JOIN medicines m ON l.medicine_id = m.id
Joined(meds, l) == l.medicine_id \in DOMAIN meds

\* (m.is_active = 1 OR m.is_active IS NULL)
ActiveOrNull(meds, l) == Joined(meds, l) => meds[l.medicine_id].is_active

LogRow(ls, i) == [ id |-> i ] @@ ls[i]

\* GET /api/medicines
ActiveList(meds) ==
    LET S == { i \in DOMAIN meds : meds[i].is_active }
        ByName == { b \in S \X S : TextLess(meds[b[1]].name, meds[b[2]].name) }
        ord == Ordered(S, ByName)
    IN  [ k \in DOMAIN ord |-> [ id |-> ord[k] ] @@ meds[ord[k]] ]

\* GET /api/logs?days=
\* variant: the history keeps the filter of the today-schedule query
HistoryActiveOnly(meds, ls, now, days) ==
    LET since == now - days
        S == { i \in DOMAIN ls : /\ ActiveOrNull(meds, ls[i])
                                 /\ DATE(ls[i].scheduled_time) # NULL
                                 /\ DATE(ls[i].scheduled_time) >= since }
        Newer == { b \in S \X S : TimeLess(ls[b[2]].scheduled_time, ls[b[1]].scheduled_time) }
        ord == Ordered(S, Newer)
    IN  [ k \in DOMAIN ord |-> LogRow(ls, ord[k]) ]

\* the LEFT JOIN keeps every logs row, and no column of m is reported
History(meds, ls, now, days) ==
    LET since == now - days
        S == { i \in DOMAIN ls : /\ Joined(meds, ls[i]) \in BOOLEAN
                                 /\ DATE(ls[i].scheduled_time) # NULL
                                 /\ DATE(ls[i].scheduled_time) >= since }
        Newer == { b \in S \X S : TimeLess(ls[b[2]].scheduled_time, ls[b[1]].scheduled_time) }
        ord == Ordered(S, Newer)
    IN  [ k \in DOMAIN ord |-> LogRow(ls, ord[k]) ]

\* variant: medicine_name is read from the joined column `m.name as medicine_name`
TodayScheduleLiveName(meds, ls, now) ==
    LET S == { i \in DOMAIN ls : /\ DATE(ls[i].scheduled_time) = now
                                 /\ ActiveOrNull(meds, ls[i]) }
        Older == { b \in S \X S : TimeLess(ls[b[1]].scheduled_time, ls[b[2]].scheduled_time) }
        ord == Ordered(S, Older)
        Live(l) == IF Joined(meds, l) THEN meds[l.medicine_id].name ELSE NullText
    IN  [ k \in DOMAIN ord |->
            [ medicine_name |-> Live(ls[ord[k]]) ] @@ LogRow(ls, ord[k]) @@
            [ instructions |-> Live(ls[ord[k]]) ] ]

\* GET /api/today-schedule; row[9] of the joined row is m.name
TodaySchedule(meds, ls, now) ==
    LET S == { i \in DOMAIN ls : /\ DATE(ls[i].scheduled_time) = now
                                 /\ ActiveOrNull(meds, ls[i]) }
        Older == { b \in S \X S : TimeLess(ls[b[1]].scheduled_time, ls[b[2]].scheduled_time) }
        ord == Ordered(S, Older)
    IN  [ k \in DOMAIN ord |->
            LogRow(ls, ord[k]) @@
            [ instructions |-> IF Joined(meds, ls[ord[k]])
                               THEN meds[ls[ord[k]].medicine_id].name
                               ELSE NullText ] ]

\* GET /api/statistics; adherence_rate is kept in hundredths of a percent
TotalMedicines(meds) == Cardinality({ i \in DOMAIN meds : meds[i].is_active })

TotalToday(meds, ls, now) ==
    Cardinality({ i \in DOMAIN ls : /\ DATE(ls[i].scheduled_time) = now
                                    /\ ActiveOrNull(meds, ls[i]) })

\* variant: the taken count leaves out the is_active filter
TakenTodayAnyMedicine(meds, ls, now) ==
    Cardinality({ i \in DOMAIN ls : /\ DATE(ls[i].scheduled_time) = now
                                    /\ ls[i].status = "taken" })

TakenToday(meds, ls, now) ==
    Cardinality({ i \in DOMAIN ls : /\ DATE(ls[i].scheduled_time) = now
                                    /\ ls[i].status = "taken"
                                    /\ ActiveOrNull(meds, ls[i]) })

TotalWeek(meds, ls, now) ==
    Cardinality({ i \in DOMAIN ls : /\ DATE(ls[i].scheduled_time) # NULL
                                    /\ DATE(ls[i].scheduled_time) >= now - WeekDays
                                    /\ ActiveOrNull(meds, ls[i]) })

TakenWeek(meds, ls, now) ==
    Cardinality({ i \in DOMAIN ls : /\ DATE(ls[i].scheduled_time) # NULL
                                    /\ DATE(ls[i].scheduled_time) >= now - WeekDays
                                    /\ ls[i].status = "taken"
                                    /\ ActiveOrNull(meds, ls[i]) })

\* round(n / d, 0) for n >= 0, d > 0: to nearest, a tie to the even side
RoundDiv(n, d) ==
    LET q == n \div d
        r == n % d
    IN  IF 2 * r < d THEN q
        ELSE IF 2 * r > d THEN q + 1
        ELSE IF q % 2 = 0 THEN q ELSE q + 1

\* variant: round() without ndigits, to a whole percent
AdherenceRateWholePercent(taken, total) ==
    IF total > 0 THEN 100 * RoundDiv(100 * taken, total) ELSE 0

\* round((taken_week / total_week) * 100, 2) if total_week > 0 else 0
AdherenceRate(taken, total) ==
    IF total > 0 THEN RoundDiv(10000 * taken, total) ELSE 0

Statistics(meds, ls, now) ==
    [ total_medicines |-> TotalMedicines(meds),
      taken_today |-> TakenToday(meds, ls, now),
      total_today |-> TotalToday(meds, ls, now),
      adherence_rate |-> AdherenceRate(TakenWeek(meds, ls, now),
                                       TotalWeek(meds, ls, now)),
      taken_this_week |-> TakenWeek(meds, ls, now) ]

GetMedicines ==
    /\ req' = [ op |-> "list" ]
    /\ resp' = [ code |-> 200, body |-> ActiveList(medicines) ]
    /\ UNCHANGED <<medicines, logs, today, pc, held, commits, nwrites>>

GetLogs ==
    \E days \in DaysArgs :
       /\ req' = [ op |-> "history", days |-> days ]
       /\ resp' = [ code |-> 200, body |-> History(medicines, logs, today, days) ]
       /\ UNCHANGED <<medicines, logs, today, pc, held, commits, nwrites>>

GetTodaySchedule ==
    /\ req' = [ op |-> "today" ]
    /\ resp' = [ code |-> 200, body |-> TodaySchedule(medicines, logs, today) ]
    /\ UNCHANGED <<medicines, logs, today, pc, held, commits, nwrites>>

GetStatistics ==
    /\ req' = [ op |-> "statistics" ]
    /\ resp' = [ code |-> 200, body |-> Statistics(medicines, logs, today) ]
    /\ UNCHANGED <<medicines, logs, today, pc, held, commits, nwrites>>

\* ------------------------------------------------------------- the clock
Tick ==
    /\ \E d \in TickJumps :
          /\ today + d <= MaxDay
          /\ today' = today + d
    /\ req' = [ op |-> "tick" ]
    /\ resp' = [ code |-> 0 ]
    /\ UNCHANGED <<medicines, logs, pc, held, commits, nwrites>>

\* ------------------------------- POST /api/logs, one statement at a time
\* Each request runs on its own connection: it reads the clock (line 269),
\* executes the UPDATE, which takes the database write lock, and commits.
Procs == { 1, 2 }

Idle == [ at |-> "idle" ]

InitConc ==
    /\ \E data \in CreateData :
          /\ ~MissingRequired(data)
          /\ ~ScheduleMismatch(data)
          /\ medicines = InsertMedicine(<<>>, data)
          /\ logs = InitialLogs(1, data, 0)
    /\ today = 0
    /\ req = [ op |-> "init" ]
    /\ resp = [ code |-> 0 ]
    /\ pc = [ p \in Procs |-> Idle ]
    /\ held = 0
    /\ commits = <<>>
    /\ nwrites = 0

Begin(p) ==
    /\ pc[p].at = "idle"
    /\ \E data \in MarkData :
          pc' = [ pc EXCEPT ![p] = [ at |-> "update", data |-> data,
                                     taken_time |-> TakenTime(data, today) ] ]
    /\ UNCHANGED <<medicines, logs, today, req, resp, held, commits, nwrites>>

\* cursor.execute(UPDATE ...): the change stays in the connection until commit
Update(p) ==
    /\ pc[p].at = "update"
    /\ held = 0
    /\ held' = p
    /\ pc' = [ pc EXCEPT ![p] =
                 [ at |-> "commit", data |-> pc[p].data,
                   taken_time |-> pc[p].taken_time,
                   view |-> UpdateLogs(logs, pc[p].data, pc[p].taken_time) ] ]
    /\ UNCHANGED <<medicines, logs, today, req, resp, commits, nwrites>>

\* the lock is still held when the busy timeout expires: OperationalError, 500
UpdateBusy(p) ==
    /\ pc[p].at = "update"
    /\ held \notin { 0, p }
    /\ pc' = [ pc EXCEPT ![p] = [ at |-> "done", data |-> pc[p].data,
                                  taken_time |-> pc[p].taken_time,
                                  code |-> 500 ] ]
    /\ UNCHANGED <<medicines, logs, today, req, resp, held, commits, nwrites>>

Commit(p) ==
    /\ pc[p].at = "commit"
    /\ held = p
    /\ logs' = pc[p].view
    /\ held' = 0
    /\ commits' = Append(commits, p)
    /\ pc' = [ pc EXCEPT ![p] = [ at |-> "done", data |-> pc[p].data,
                                  taken_time |-> pc[p].taken_time,
                                  code |-> 200 ] ]
    /\ UNCHANGED <<medicines, today, req, resp, nwrites>>

NextConc ==
    \/ \E p \in Procs : Begin(p)
    \/ \E p \in Procs : Update(p)
    \/ \E p \in Procs : UpdateBusy(p)
    \/ \E p \in Procs : Commit(p)
    \/ Tick

SpecConc == InitConc /\ [][NextConc]_vars

Next ==
    \/ CreateMedicine
    \/ UpdateMedicine
    \/ DeleteMedicine
    \/ MarkLog
    \/ AdHocLog
    \/ GetMedicines
    \/ GetLogs
    \/ GetTodaySchedule
    \/ GetStatistics
    \/ Tick

Spec == Init /\ [][Next]_vars

\* ================================================================ claims

\* r is s without its leading and trailing blanks
IsStripped(r, s) ==
    /\ r = <<>> \/ (r[1] # " " /\ r[Len(r)] # " ")
    /\ \E i \in 0..Len(s) :
          /\ i + Len(r) <= Len(s)
          /\ SubSeq(s, i + 1, i + Len(r)) = r
          /\ \A k \in 1..Len(s) : (k <= i \/ k > i + Len(r)) => s[k] = " "

\* C1: a create request whose schedule length differs from times_per_day is
\* answered 400 and adds no Medicine row and no LogEntry row.
C1_MismatchRejected ==
    [][ (req'.op = "create"
         /\ Len(req'.data.schedule) # req'.data.times_per_day)
        => (resp'.code = 400 /\ medicines' = medicines /\ logs' = logs) ]_vars

C1_Witness ==
    /\ req.op = "create"
    /\ Len(req.data.schedule) # req.data.times_per_day
    /\ resp.code = 400
    /\ resp.error = "mismatch"
    /\ Len(logs) > 0

\* the rows a successful create adds, apart from medicine_name and dosage
CreatedRows(copied(_, _)) ==
    LET d == req'.data
        n == Len(d.schedule)
        k == Len(logs)
        mid == Len(medicines) + 1
    IN  /\ Len(medicines') = mid
        /\ resp'.id = mid
        /\ \A i \in DOMAIN medicines : medicines'[i] = medicines[i]
        /\ Len(logs') = k + n
        /\ \A i \in 1..k : logs'[i] = logs[i]
        /\ \A i \in 1..n :
              /\ logs'[k + i].status = "pending"
              /\ logs'[k + i].taken_time = NULL
              /\ logs'[k + i].medicine_id = mid
              /\ logs'[k + i].scheduled_time = <<today, d.schedule[i]>>
              /\ copied(logs'[k + i].medicine_name, d.name)
              /\ copied(logs'[k + i].dosage, d.dosage)

\* C2 as stated: a successful create with n slots adds one Medicine and n
\* pending LogEntry rows in schedule order, dated today, whose name and
\* dosage are the request's name and dosage; no other row changes.
C2_CopiedVerbatim ==
    [][ (req'.op = "create" /\ resp'.code = 200)
        => LET Same(a, b) == a = b IN CreatedRows(Same) ]_vars

\* C2 amended: the same, with name and dosage equal to the request's values
\* without their leading and trailing blanks, as stored in the Medicine row.
C2_CreatedRows ==
    [][ (req'.op = "create" /\ resp'.code = 200)
        => /\ CreatedRows(IsStripped)
           /\ \A i \in (Len(logs) + 1)..Len(logs') :
                 /\ logs'[i].medicine_name = medicines'[Len(medicines')].name
                 /\ logs'[i].dosage = medicines'[Len(medicines')].dosage ]_vars

C2_Witness ==
    /\ req.op = "create"
    /\ resp.code = 200
    /\ req.data.name = <<" ", "b">>
    /\ req.data.schedule = <<"20:00", "08:00">>
    /\ Len(logs) = 3
    /\ logs[2].scheduled_time = <<today, "20:00">>
    /\ logs[3].scheduled_time = <<today, "08:00">>

\* C3: after a mark-by-id request on an existing LogEntry, with or without a
\* status field, status taken comes with a non-null taken_time and status
\* skipped with a null taken_time.
C3_TakenHasTime ==
    [][ (req'.op = "mark" /\ req'.data.log_id \in DOMAIN logs)
        => LET l == logs'[req'.data.log_id]
           IN  /\ l.status = "taken" => l.taken_time # NULL
               /\ l.status = "skipped" => l.taken_time = NULL ]_vars

\* C4: a soft-delete only clears that medicine's is_active: the medicine
\* leaves the active list, no Medicine row goes away, no LogEntry row
\* changes, and the history is the same before and after, with the
\* medicine's entries of the window still in it.
C4_SoftDeleteFrame ==
    [][ req'.op = "delete"
        => LET id == req'.id IN
           /\ logs' = logs
           /\ DOMAIN medicines' = DOMAIN medicines
           /\ \A i \in DOMAIN medicines :
                 medicines'[i] = IF i = id
                                 THEN [ medicines[i] EXCEPT !.is_active = FALSE ]
                                 ELSE medicines[i]
           /\ \A k \in DOMAIN ActiveList(medicines') :
                 ActiveList(medicines')[k].id # id
           /\ \A days \in DaysArgs :
                 /\ History(medicines', logs', today', days)
                      = History(medicines, logs, today, days)
                 /\ \A i \in DOMAIN logs :
                       (/\ logs[i].medicine_id = id
                        /\ ValidTime(logs[i].scheduled_time[2])
                        /\ logs[i].scheduled_time[1] >= today - days)
                       => \E k \in DOMAIN History(medicines', logs', today', days) :
                             History(medicines', logs', today', days)[k]
                               = LogRow(logs, i) ]_vars

C4_Witness ==
    /\ req.op = "delete"
    /\ req.id \in DOMAIN medicines
    /\ ~medicines[req.id].is_active
    /\ \E k \in DOMAIN History(medicines, logs, today, WeekDays) :
          /\ History(medicines, logs, today, WeekDays)[k].medicine_id = req.id
          /\ History(medicines, logs, today, WeekDays)[k].status = "taken"

\* C5: in every reachable state taken_today <= total_today, and
\* taken_this_week <= the 7-day total used for the adherence rate.
C5_TakenAtMostTotal ==
    /\ Statistics(medicines, logs, today).taken_today
         <= Statistics(medicines, logs, today).total_today
    /\ Statistics(medicines, logs, today).taken_this_week
         <= TotalWeek(medicines, logs, today)
    /\ req.op = "statistics" => resp.body.taken_today <= resp.body.total_today

C5_Witness ==
    /\ req.op = "statistics"
    /\ resp.body.taken_today = 1
    /\ resp.body.total_today = 2
    /\ resp.body.taken_this_week = 1
    /\ TotalWeek(medicines, logs, today) = 2

\* the entries of the trailing 7-day window whose medicine is active or absent
WindowEntries ==
    { i \in DOMAIN logs :
        /\ logs[i].scheduled_time # NullTime
        /\ ValidTime(logs[i].scheduled_time[2])
        /\ logs[i].scheduled_time[1] >= today - WeekDays
        /\ \A m \in DOMAIN medicines :
              m = logs[i].medicine_id => medicines[m].is_active }

WindowTaken == { i \in WindowEntries : logs[i].status = "taken" }

\* C6 as stated: the statistics request never fails; the adherence rate is 0
\* when the window has no entry, else exactly 100 * taken / total over the
\* window's entries, hence between 0 and 100.
C6_ExactRate ==
    LET r == Statistics(medicines, logs, today).adherence_rate
        t == Cardinality(WindowEntries)
        k == Cardinality(WindowTaken)
    IN  /\ req.op = "statistics" => resp.code = 200 /\ resp.body.adherence_rate = r
        /\ t = 0 => r = 0
        /\ t > 0 => r * t = 10000 * k
        /\ 0 <= r /\ r <= 10000

\* C6 amended: the same, with the rate being 100 * taken / total rounded to
\* two decimals (within half a hundredth of the exact value).
C6_RoundedRate ==
    LET r == Statistics(medicines, logs, today).adherence_rate
        t == Cardinality(WindowEntries)
        k == Cardinality(WindowTaken)
        diff == r * t - 10000 * k
    IN  /\ req.op = "statistics" => resp.code = 200 /\ resp.body.adherence_rate = r
        /\ t = 0 => r = 0
        /\ t > 0 => (2 * diff <= t /\ -2 * diff <= t)
        /\ 0 <= r /\ r <= 10000

C6_Witness ==
    /\ req.op = "statistics"
    /\ resp.code = 200
    /\ Cardinality(WindowEntries) = 3
    /\ Cardinality(WindowTaken) = 1
    /\ resp.body.adherence_rate = 3333

\* C7: every stored Medicine has len(schedule) = times_per_day, after any
\* sequence of create and update requests.
C7_ScheduleMatches ==
    \A i \in DOMAIN medicines :
       Len(medicines[i].schedule) = medicines[i].times_per_day

\* C8: an update leaves every LogEntry as it was, adds none, keeps every
\* is_active flag, and the today-schedule and history listings still report
\* each entry's snapshot name and dosage.
C8_UpdateKeepsHistory ==
    [][ req'.op = "update"
        => /\ logs' = logs
           /\ DOMAIN medicines' = DOMAIN medicines
           /\ \A i \in DOMAIN medicines :
                 medicines'[i].is_active = medicines[i].is_active
           /\ \A days \in DaysArgs :
                 History(medicines', logs', today', days)
                   = History(medicines, logs, today, days)
           /\ DOMAIN TodaySchedule(medicines', logs', today')
                = DOMAIN TodaySchedule(medicines, logs, today)
           /\ \A k \in DOMAIN TodaySchedule(medicines', logs', today') :
                 LET after == TodaySchedule(medicines', logs', today')[k]
                     before == TodaySchedule(medicines, logs, today)[k]
                 IN  /\ after.id = before.id
                     /\ after.medicine_name = logs[after.id].medicine_name
                     /\ after.dosage = logs[after.id].dosage
                     /\ after.medicine_name = before.medicine_name
                     /\ after.dosage = before.dosage ]_vars

C8_Witness ==
    /\ req.op = "update"
    /\ resp.code = 200
    /\ req.id \in DOMAIN medicines
    /\ \E k \in DOMAIN TodaySchedule(medicines, logs, today) :
          LET row == TodaySchedule(medicines, logs, today)[k]
          IN  /\ row.medicine_id = req.id
              /\ row.medicine_name # medicines[req.id].name
              /\ row.dosage # medicines[req.id].dosage

\* C9: a mark-by-id request for a log id that does not exist, and a
\* soft-delete of a medicine id that does not exist, change nothing in the
\* store and are answered with success.
C9_SilentNoOp ==
    [][ (\/ req'.op = "mark" /\ req'.data.log_id \notin DOMAIN logs
         \/ req'.op = "delete" /\ req'.id \notin DOMAIN medicines)
        => (logs' = logs /\ medicines' = medicines /\ resp'.code = 200) ]_vars

C9_Witness ==
    /\ req.op = "mark"
    /\ req.data.log_id \notin DOMAIN logs
    /\ resp.code = 200
    /\ Len(logs) > 0
    /\ Len(medicines) > 0

\* the request that committed last among those that named log id i, or 0
LastWriter(i) ==
    LET W == { n \in DOMAIN commits : pc[commits[n]].data.log_id = i }
    IN  IF W = {} THEN 0
        ELSE commits[CHOOSE n \in W : \A m \in W : m <= n]

\* C10: with two concurrent mark-by-id requests, a LogEntry carries the
\* status, taken_time and notes of the one request that committed last on
\* it, never a mixture, and an entry no request named is untouched.
C10_LastWriterWins ==
    \A i \in DOMAIN logs :
       LET w == LastWriter(i) IN
       IF w = 0
       THEN /\ logs[i].status = "pending"
            /\ logs[i].taken_time = NULL
            /\ logs[i].notes = ABSENT
       ELSE /\ logs[i].status = (IF pc[w].data.status = ABSENT THEN "taken"
                                 ELSE pc[w].data.status)
            /\ logs[i].taken_time = pc[w].taken_time
            /\ logs[i].notes = (IF pc[w].data.notes = ABSENT THEN ""
                                ELSE pc[w].data.notes)

C10_Witness ==
    /\ \A p \in Procs : pc[p].at = "done" /\ pc[p].code = 200
    /\ pc[1].data.log_id = 1
    /\ pc[2].data.log_id = 1
    /\ commits = <<2, 1>>
    /\ pc[2].data.status = "taken" /\ pc[2].data.notes = "n1"
    /\ pc[2].taken_time = 0
    /\ pc[1].data.status = "skipped" /\ pc[1].data.notes = ABSENT
    /\ logs[1].status = "skipped"
    /\ Len(logs) = 2
====
